---- MODULE Spec2Model ----
(***************************************************************************)
(* TextFormatter of logrus (text_formatter.go, here src/unnamed/part_000)  *)
(* with the OS shims terminal_darwin.go and terminal_bsd.go.               *)
(*                                                                         *)
(* A text (Go string or []byte) is a sequence of one-byte strings.  The    *)
(* escape byte 0x1b is written "ESC" and the newline byte "\n".            *)
(***************************************************************************)
EXTENDS Integers, Sequences, FiniteSets, TLC

VARIABLES
  f,          \* the TextFormatter: its flags, TimestampFormat, FieldMap, isTerminal
  once,       \* the embedded sync.Once: done flag and holder of its mutex
  env,        \* the execution context: GOOS, process id, thread id
  entry,      \* the *Entry being formatted (Data, Level, Message, Time, Logger, Buffer)
  calls,      \* Format calls made on this entry so far
  out,        \* bytes returned by the last Format call on this entry
  status,     \* how that call ended: "none", "ok" or the panic that ended it
  prevOut,    \* the same for the call before it on this entry
  prevStatus,
  order,      \* the keys slice the last call iterated over (after the sort, if any)
  colored,    \* isColored of the last call
  cleanBuf,   \* every call on this entry started with no buffer or an empty one
  probes,     \* executions of checkIfTerminal on this formatter
  inits,      \* executions of TextFormatter.init on this formatter
  pc,         \* concurrent callers: position of each one inside Format
  pentry,     \* concurrent callers: the logger each caller's entry carries
  pcolored,   \* concurrent callers: the isColored each one computed
  earlyRead   \* some caller read isTerminal while once.done was still false

vars == <<f, once, env, entry, calls, out, status, prevOut, prevStatus, order,
          colored, cleanBuf, probes, inits, pc, pentry, pcolored, earlyRead>>

seqVars == <<entry, calls, out, status, prevOut, prevStatus, order, colored, cleanBuf>>
concVars == <<pc, pentry, pcolored, earlyRead>>

----------------------------------------------------------------------------
(* Bytes *)

NL == "\n"
ESC == "ESC"
Nil == "nil"

LowerSeq == <<"a","b","c","d","e","f","g","h","i","j","k","l","m",
              "n","o","p","q","r","s","t","u","v","w","x","y","z">>
UpperSeq == <<"A","B","C","D","E","F","G","H","I","J","K","L","M",
              "N","O","P","Q","R","S","T","U","V","W","X","Y","Z">>
DigitSeq == <<"0","1","2","3","4","5","6","7","8","9">>

Range(s) == {s[i] : i \in DOMAIN s}
LowerBytes == Range(LowerSeq)
DigitBytes == Range(DigitSeq)

\* the bytes of the model in ascending byte value
Ascii == <<NL, ESC, " ", "\"", "+", "-", ".", "/">> \o DigitSeq \o <<":", "=", "@">>
         \o UpperSeq \o <<"[", "\\", "]", "^", "_">> \o LowerSeq

Code(c) == CHOOSE i \in DOMAIN Ascii : Ascii[i] = c

RECURSIVE Concat(_)
Concat(ss) == IF ss = <<>> THEN <<>> ELSE Head(ss) \o Concat(Tail(ss))

Drop(s, n) == SubSeq(s, n + 1, Len(s))
Take(s, n) == SubSeq(s, 1, n)

HasPrefix(s, p) == Len(p) <= Len(s) /\ Take(s, Len(p)) = p

\* index (from 1) of the first occurrence of p in s at or after position i, 0 if none
RECURSIVE IndexFrom(_, _, _)
IndexFrom(s, p, i) ==
  IF i + Len(p) - 1 > Len(s) THEN 0
  ELSE IF SubSeq(s, i, i + Len(p) - 1) = p THEN i
  ELSE IndexFrom(s, p, i + 1)

Count(s, c) == Cardinality({i \in DOMAIN s : s[i] = c})

----------------------------------------------------------------------------
(* Library functions the formatter calls, by what they do on these bytes *)

RECURSIVE Digits(_)
Digits(n) == IF n < 10 THEN <<DigitSeq[n + 1]>>
             ELSE Digits(n \div 10) \o <<DigitSeq[(n % 10) + 1]>>

\* strconv.Itoa, and fmt's %d
Itoa(n) == IF n < 0 THEN <<"-">> \o Digits(-n) ELSE Digits(n)

Repeat(c, n) == [i \in 1..n |-> c]

\* fmt's %0<w>d: zero padding to width w, the sign counted in the width
PadZero(n, w) ==
  LET d == Digits(IF n < 0 THEN -n ELSE n)
      sign == IF n < 0 THEN <<"-">> ELSE <<>>
      fill == w - Len(d) - Len(sign)
  IN sign \o Repeat("0", IF fill > 0 THEN fill ELSE 0) \o d

\* fmt's %-<w>s: left-justified, padded with spaces to width w
PadRight(s, w) == s \o Repeat(" ", IF w > Len(s) THEN w - Len(s) ELSE 0)

\* strings.Split(s, sep) for a one-byte separator
RECURSIVE Split(_, _)
Split(s, c) ==
  LET i == IndexFrom(s, <<c>>, 1)
  IN IF i = 0 THEN <<s>> ELSE <<Take(s, i - 1)>> \o Split(Drop(s, i), c)

\* strings.LastIndexByte: Go's index (from 0), -1 when c does not occur
LastIndexByte(s, c) ==
  LET I == {i \in DOMAIN s : s[i] = c}
  IN IF I = {} THEN -1 ELSE (CHOOSE i \in I : \A j \in I : j <= i) - 1

\* strings.Replace(s, old, "", -1)
RECURSIVE Remove(_, _)
Remove(s, old) ==
  LET i == IndexFrom(s, old, 1)
  IN IF i = 0 THEN s ELSE Take(s, i - 1) \o Remove(Drop(s, i - 1 + Len(old)), old)

\* strings.ToUpper
ToUpper(s) ==
  [i \in DOMAIN s |->
     IF s[i] \in LowerBytes
     THEN UpperSeq[CHOOSE j \in DOMAIN LowerSeq : LowerSeq[j] = s[i]]
     ELSE s[i]]

EscapeByte(c) ==
  CASE c = "\"" -> <<"\\", "\"">>
    [] c = "\\" -> <<"\\", "\\">>
    [] c = NL   -> <<"\\", "n">>
    [] c = ESC  -> <<"\\", "x", "1", "b">>
    [] OTHER    -> <<c>>

\* fmt's %q (strconv.Quote)
Quote(s) == <<"\"">> \o Concat([i \in DOMAIN s |-> EscapeByte(s[i])]) \o <<"\"">>

\* time.Time.Format: the layout is a sequence of chunks, a reference-time
\* element ("2006", "01", "02", "15", "04", "05", "Z07:00") or a literal byte;
\* times are UTC
FormatChunk(c, t) ==
  CASE c = "2006"   -> PadZero(t.Y, 4)
    [] c = "01"     -> PadZero(t.M, 2)
    [] c = "02"     -> PadZero(t.D, 2)
    [] c = "15"     -> PadZero(t.h, 2)
    [] c = "04"     -> PadZero(t.m, 2)
    [] c = "05"     -> PadZero(t.s, 2)
    [] c = "Z07:00" -> <<"Z">>
    [] OTHER        -> <<c>>

TimeFormat(t, layout) == Concat([i \in DOMAIN layout |-> FormatChunk(layout[i], t)])

\* time.RFC3339, the value of defaultTimestampFormat
defaultTimestampFormat ==
  <<"2006", "-", "01", "-", "02", "T", "15", ":", "04", ":", "05", "Z07:00">>

\* sort.Strings compares byte-wise
RECURSIVE LexLess(_, _)
LexLess(a, b) ==
  IF b = <<>> THEN FALSE
  ELSE IF a = <<>> THEN TRUE
  ELSE IF Head(a) = Head(b) THEN LexLess(Tail(a), Tail(b))
  ELSE Code(Head(a)) < Code(Head(b))

\* the comparison the other way round
RECURSIVE InsertDesc(_, _)
InsertDesc(k, s) ==
  IF s = <<>> THEN <<k>>
  ELSE IF LexLess(k, Head(s)) THEN <<Head(s)>> \o InsertDesc(k, Tail(s))
  ELSE <<k>> \o s

RECURSIVE Insert(_, _)
Insert(k, s) ==
  IF s = <<>> THEN <<k>>
  ELSE IF LexLess(Head(s), k) THEN <<Head(s)>> \o Insert(k, Tail(s))
  ELSE <<k>> \o s

\* sort.Strings(keys)
RECURSIVE SortStrings(_)
SortStrings(keys) ==
  IF keys = <<>> THEN <<>> ELSE Insert(Head(keys), SortStrings(Tail(keys)))

\* the orders in which "for k := range entry.Data" can yield the keys
Perms(S) == {p \in [1..Cardinality(S) -> S] : \A i, j \in DOMAIN p : i # j => p[i] # p[j]}

----------------------------------------------------------------------------
(* Collaborators of the formatter that live in other files of the package *)

FieldKeyMsg == <<"m","s","g">>
FieldKeyLevel == <<"l","e","v","e","l">>
FieldKeyTime == <<"t","i","m","e">>

\* FieldMap.resolve: the mapped name of a default key, the key itself if unmapped
resolve(fieldMap, key) == IF key \in DOMAIN fieldMap THEN fieldMap[key] ELSE key

FieldsPrefix == <<"f","i","e","l","d","s",".">>

\* one clash: data["fields."+key] = data[key]; delete(data, key)
prefixClash(data, key) ==
  IF key \in DOMAIN data
  THEN LET nk == FieldsPrefix \o key
       IN [k \in (DOMAIN data \ {key}) \cup {nk} |-> IF k = nk THEN data[key] ELSE data[k]]
  ELSE data

\* prefixFieldClashes(data, fieldMap): time, then msg, then level
prefixFieldClashes(data, fieldMap) ==
  prefixClash(prefixClash(prefixClash(data, resolve(fieldMap, FieldKeyTime)),
                          resolve(fieldMap, FieldKeyMsg)),
              resolve(fieldMap, FieldKeyLevel))

Levels == {"PanicLevel", "FatalLevel", "ErrorLevel", "WarnLevel", "InfoLevel", "DebugLevel"}

\* Level.String
LevelString(l) ==
  CASE l = "DebugLevel" -> <<"d","e","b","u","g">>
    [] l = "InfoLevel"  -> <<"i","n","f","o">>
    [] l = "WarnLevel"  -> <<"w","a","r","n","i","n","g">>
    [] l = "ErrorLevel" -> <<"e","r","r","o","r">>
    [] l = "FatalLevel" -> <<"f","a","t","a","l">>
    [] l = "PanicLevel" -> <<"p","a","n","i","c">>
    [] OTHER            -> <<"u","n","k","n","o","w","n">>

\* checkIfTerminal(w): whether the writer is a terminal
checkIfTerminal(w) == w = "tty"

----------------------------------------------------------------------------
(* Field values: a string, an error (its message) or an int *)

Str(s) == [t |-> "string", s |-> s, n |-> 0]
Err(s) == [t |-> "error", s |-> s, n |-> 0]
IntV(n) == [t |-> "int", s |-> <<>>, n |-> n]

\* fmt.Sprint(value), fmt.Fprint(b, value)
Sprint(v) == IF v.t = "int" THEN Itoa(v.n) ELSE v.s

\* outcome of a piece of Format: the bytes it wrote, and the panic that ended it if any
Ok(w) == [ok |-> TRUE, w |-> w, why |-> "ok"]
Panic(w, why) == [ok |-> FALSE, w |-> w, why |-> why]

\* the pieces run in order, each appending to what is written so far; the first
\* panic ends the call
RECURSIVE SeqnFrom(_, _)
SeqnFrom(rs, acc) ==
  IF rs = <<>> THEN Ok(acc)
  ELSE IF ~Head(rs).ok THEN Panic(acc \o Head(rs).w, Head(rs).why)
  ELSE SeqnFrom(Tail(rs), acc \o Head(rs).w)

Seqn(rs) == SeqnFrom(rs, <<>>)

----------------------------------------------------------------------------
(* text_formatter.go *)

red == 31
yellow == 33
blue == 36
gray == 37

KeyProcessID == <<"p","r","o","c","e","s","s"," ","I","D">>
KeyThreadID == <<"t","h","r","e","a","d"," ","I","D">>
KeyOS == <<"O","S">>
KeySourceFile == <<"s","o","u","r","c","e","_","f","i","l","e">>
DotGo == <<".","g","o">>

SafeBytes == LowerBytes \cup Range(UpperSeq) \cup DigitBytes
             \cup {"-", ".", "_", "/", "@", "^", "+"}

needsQuoting(fm, text) ==
  \/ fm.QuoteEmptyFields /\ Len(text) = 0
  \/ \E i \in DOMAIN text : text[i] \notin SafeBytes

\* runtime.GOOS -> "W", "M" or "L"
detectOS(ev) ==
  CASE ev.goos = "windows" -> <<"W">>
    [] ev.goos = "darwin"  -> <<"M">>
    [] OTHER               -> <<"L">>

\* strconv.Atoi on a text of digits; err otherwise
RECURSIVE AtoiDigits(_)
AtoiDigits(s) ==
  IF s = <<>> THEN 0
  ELSE AtoiDigits(Take(s, Len(s) - 1)) * 10
       + (CHOOSE d \in 0..9 : DigitSeq[d + 1] = s[Len(s)])

\* terminal_darwin.go: the goroutine id parsed from the first line of
\* runtime.Stack, 0 if it does not parse
GetCurrentThreadIdDarwin(ev) ==
  LET stack == <<"g","o","r","o","u","t","i","n","e"," ">> \o Itoa(ev.goid)
               \o <<" ","[","r","u","n","n","i","n","g","]",":",NL>>
      trimmed == IF HasPrefix(stack, <<"g","o","r","o","u","t","i","n","e"," ">>)
                 THEN Drop(stack, 10) ELSE stack
      idField == Head(Split(trimmed, " "))
  IN IF idField # <<>> /\ \A i \in DOMAIN idField : idField[i] \in DigitBytes
     THEN AtoiDigits(idField) ELSE 0

\* terminal_bsd.go: syscall.Gettid()
GetCurrentThreadIdBSD(ev) == ev.ostid

\* the build tags choose the file
GetCurrentThreadId(ev) ==
  IF ev.goos = "darwin" THEN GetCurrentThreadIdDarwin(ev) ELSE GetCurrentThreadIdBSD(ev)

\* the case key == "time" of appendKeyValue
appendTime(value) ==
  LET arrstr == Split(value, "T")
      arr == Split(arrstr[1], "-")
      date == Concat([j \in 1..Len(arr) |->
                        arr[Len(arr) + 1 - j] \o (IF j = Len(arr) THEN <<" ">> ELSE <<"-">>)])
  IN IF Len(arrstr) < 2 THEN Panic(date, "index out of range")
     ELSE IF Len(arrstr[2]) < 8 THEN Panic(date, "slice bounds out of range")
     ELSE Ok(date \o Take(arrstr[2], 8))

\* key=value for every key
appendStringKV(key, value) == Ok(key \o <<"=">> \o value)

\* the case string of appendKeyValue
appendString(key, value) ==
  CASE key = FieldKeyTime  -> appendTime(value)
    [] key = FieldKeyLevel -> Ok(<<"[">> \o value \o <<"]">>)
    [] key = KeyProcessID  -> Ok(<<"[","p","i","d"," ">> \o value \o <<"]">>)
    [] key = KeyThreadID   -> Ok(<<"[","t","i","d"," ">> \o value \o <<"]">>)
    [] key = KeyOS         -> Ok(<<"[">> \o value \o <<"]">>)
    [] key = FieldKeyMsg   -> Ok(value)
    [] key = KeySourceFile -> Ok(<<"[">> \o Remove(value, DotGo) \o <<"]">>)
    [] OTHER               -> Ok(value)

appendKeyValue(fm, key, value) ==
  LET r == CASE value.t = "string" -> appendString(key, value.s)
             [] value.t = "error"  ->
                  Ok(IF ~needsQuoting(fm, value.s) THEN value.s ELSE Quote(value.s))
             [] OTHER              -> Ok(Sprint(value))
  IN IF r.ok THEN Ok(r.w \o <<" ">>) ELSE r

appendValue(fm, value) ==
  LET stringVal == IF value.t = "string" THEN value.s ELSE Sprint(value)
  IN IF ~needsQuoting(fm, stringVal) THEN stringVal ELSE Quote(stringVal)

\* the body of the loop over keys in the plain branch of Format
appendField(fm, data, key) ==
  IF key = KeySourceFile
  THEN IF data[key].t # "string"
       THEN Panic(<<>>, "interface conversion")
       ELSE LET n == LastIndexByte(data[key].s, "/")
            IN appendKeyValue(fm, key, Str(Drop(data[key].s, n + 1)))
  ELSE appendKeyValue(fm, key, data[key])

\* the plain branch of Format
formatPlain(fm, e, ev, data, keys, timestampFormat) ==
  Seqn((IF ~fm.DisableTimestamp
        THEN <<appendKeyValue(fm, FieldKeyTime, Str(TimeFormat(e.Time, timestampFormat)))>>
        ELSE <<>>)
       \o <<appendKeyValue(fm, resolve(fm.FieldMap, FieldKeyLevel), Str(LevelString(e.Level))),
            appendKeyValue(fm, KeyProcessID, Str(Itoa(ev.pid))),
            appendKeyValue(fm, KeyThreadID, Str(Itoa(GetCurrentThreadId(ev)))),
            appendKeyValue(fm, KeyOS, Str(detectOS(ev)))>>
       \o [i \in DOMAIN keys |-> appendField(fm, data, keys[i])]
       \o (IF e.Message # <<>>
           THEN <<appendKeyValue(fm, resolve(fm.FieldMap, FieldKeyMsg), Str(e.Message))>>
           ELSE <<>>))

levelColorOf(level) ==
  CASE level = "DebugLevel" -> gray
    [] level = "WarnLevel"  -> yellow
    [] level \in {"ErrorLevel", "FatalLevel", "PanicLevel"} -> red
    [] OTHER -> blue

Sgr(n) == <<ESC, "[">> \o Itoa(n) \o <<"m">>

MsgWidth == 44

printColored(fm, e, data, keys, timestampFormat) ==
  LET levelColor == levelColorOf(e.Level)
      upper == ToUpper(LevelString(e.Level))
      levelText == IF ~fm.DisableLevelTruncation THEN Take(upper, 4) ELSE upper
      stamp == IF fm.DisableTimestamp THEN <<" ">>
               ELSE IF ~fm.FullTimestamp
               THEN <<"[">> \o PadZero(e.Time.since, 4) \o <<"]", " ">>
               ELSE <<"[">> \o TimeFormat(e.Time, timestampFormat) \o <<"]", " ">>
      head == Sgr(levelColor) \o levelText \o Sgr(0) \o stamp
              \o PadRight(e.Message, MsgWidth) \o <<" ">>
      fields == Concat([i \in DOMAIN keys |->
                   <<" ">> \o Sgr(levelColor) \o keys[i] \o Sgr(0) \o <<"=">>
                   \o appendValue(fm, data[keys[i]])])
  IN IF ~fm.DisableLevelTruncation /\ Len(upper) < 4
     THEN Panic(<<>>, "slice bounds out of range")
     ELSE Ok(head \o fields)

\* TextFormatter.init: the new value of f.isTerminal
init(fm, e) == IF e.Logger # Nil THEN checkIfTerminal(e.Logger) ELSE fm.isTerminal

\* init called on every Format, with no Once
doRunsAlways(o) == TRUE

\* f.Do(func() { f.init(entry) }) seen by one caller: whether the function runs
doRuns(o) == ~o.done

\* the sort left out
sortKeysNot(fm, keys) == keys

\* lines 93-95
sortKeys(fm, keys) == IF ~fm.DisableSorting THEN SortStrings(keys) ELSE keys

isColoredOf(fm) == (fm.ForceColors \/ fm.isTerminal) /\ ~fm.DisableColors

----------------------------------------------------------------------------
(* The inputs *)

MaxCalls == 2
NProcs == 2

Hello == <<"h","e","l","l","o">>

NoTLayout == <<"2006", "-", "01", "-", "02", " ", "15", ":", "04", ":", "05">>
ShortLayout == <<"2006", "-", "01", "-", "02", "T", "15", ":", "04">>

CustomFieldMap ==
  (FieldKeyTime :> <<"@","t">>) @@ (FieldKeyLevel :> <<"@","l">>) @@ (FieldKeyMsg :> <<"@","m">>)
ChainFieldMap == (FieldKeyMsg :> <<"a">>) @@ (FieldKeyTime :> (FieldsPrefix \o <<"a">>))

Config(fc, dc, dt, ft, tf, ds, dl, qe, fmap) ==
  [ForceColors |-> fc, DisableColors |-> dc, DisableTimestamp |-> dt,
   FullTimestamp |-> ft, TimestampFormat |-> tf, DisableSorting |-> ds,
   DisableLevelTruncation |-> dl, QuoteEmptyFields |-> qe, FieldMap |-> fmap,
   isTerminal |-> FALSE]

\* every combination of the flags; the other layouts and field maps with the
\* flags that bring them into play
Configs ==
  {Config(fc, dc, dt, ft, <<>>, ds, dl, qe, <<>>) :
     fc \in BOOLEAN, dc \in BOOLEAN, dt \in BOOLEAN, ft \in BOOLEAN,
     ds \in BOOLEAN, dl \in BOOLEAN, qe \in BOOLEAN}
  \cup {Config(fc, FALSE, FALSE, TRUE, tf, FALSE, FALSE, FALSE, <<>>) :
          fc \in BOOLEAN, tf \in {NoTLayout, ShortLayout}}
  \cup {Config(fc, FALSE, TRUE, FALSE, <<>>, FALSE, FALSE, FALSE, fmap) :
          fc \in BOOLEAN, fmap \in {CustomFieldMap, ChainFieldMap}}

Envs == {[goos |-> "darwin", pid |-> 4242, goid |-> 7, ostid |-> 0],
         [goos |-> "freebsd", pid |-> 7, goid |-> 1, ostid |-> 100321]}

Time1 == [Y |-> 2006, M |-> 1, D |-> 2, h |-> 15, m |-> 4, s |-> 5, since |-> 7]

DataA == (<<"a">> :> Str(<<"1">>))
Data3 == (<<"b">> :> Str(<<"2">>)) @@ (<<"a">> :> Str(<<"h","i"," ","y","o">>))
         @@ (<<"c">> :> IntV(42))
DataErr == (<<"e","r","r">> :> Err(<<"b","a","d"," ","i","o">>)) @@ (<<"e">> :> Str(<<>>))
DataTime == (FieldKeyTime :> Str(<<"x">>))
DataMsgLevel == (FieldKeyMsg :> Str(<<"m">>)) @@ (FieldKeyLevel :> Str(<<"l">>))
DataSrc == (KeySourceFile :> Str(<<"/","x","/","y","/","m","a","i","n",".","g","o">>))
DataSrcInt == (KeySourceFile :> IntV(3))
DataNl == (<<"a">> :> Str(<<"l", NL, "m">>))

Datas == {<<>>, DataA, Data3, DataErr, DataTime, DataMsgLevel, DataSrc, DataSrcInt, DataNl}

Entry(data, level, msg, logger, hasBuf, buf) ==
  [Data |-> data, Level |-> level, Message |-> msg, Time |-> Time1,
   Logger |-> logger, HasBuffer |-> hasBuf, Buffer |-> buf]

Entries ==
  {Entry(DataA, l, Hello, Nil, FALSE, <<>>) : l \in Levels}
  \cup {Entry(DataA, "InfoLevel", m, Nil, FALSE, <<>>) : m \in {<<>>, <<"x", NL, "y">>}}
  \cup {Entry(d, "InfoLevel", Hello, Nil, FALSE, <<>>) : d \in Datas}
  \cup {Entry(DataA, "InfoLevel", Hello, w, FALSE, <<>>) : w \in {"tty", "file"}}
  \cup {Entry(DataA, "InfoLevel", Hello, Nil, TRUE, b) : b \in {<<>>, <<"o","l","d",NL>>}}

\* the entries that follow the first one: every logger and buffer, one or three fields
LaterEntries ==
  {e \in Entries : e.Data \in {DataA, Data3} /\ e.Level = "InfoLevel" /\ e.Message = Hello}

Procs == 1..NProcs

----------------------------------------------------------------------------
(* Sequential use: a logger hands entries to Format, one call at a time *)

Init ==
  /\ f \in Configs
  /\ once = [done |-> FALSE, m |-> 0]
  /\ env \in Envs
  /\ entry \in Entries
  /\ calls = 0
  /\ out = <<>>
  /\ status = "none"
  /\ prevOut = <<>>
  /\ prevStatus = "none"
  /\ order = <<>>
  /\ colored = FALSE
  /\ cleanBuf = TRUE
  /\ probes = 0
  /\ inits = 0
  /\ pc = [p \in Procs |-> "idle"]
  /\ pentry = [p \in Procs |-> Nil]
  /\ pcolored = [p \in Procs |-> FALSE]
  /\ earlyRead = FALSE

\* the logger builds the next entry once this one has been formatted
NewEntry ==
  /\ calls > 0
  /\ entry' \in LaterEntries
  /\ calls' = 0
  /\ out' = <<>>
  /\ status' = "none"
  /\ prevOut' = <<>>
  /\ prevStatus' = "none"
  /\ order' = <<>>
  /\ colored' = FALSE
  /\ cleanBuf' = TRUE
  /\ UNCHANGED <<f, once, env, probes, inits, concVars>>

\* the owner of entry.Buffer empties it (bytes.Buffer.Reset)
ResetBuffer ==
  /\ entry.HasBuffer
  /\ entry.Buffer # <<>>
  /\ entry' = [entry EXCEPT !.Buffer = <<>>]
  /\ UNCHANGED <<f, once, env, calls, out, status, prevOut, prevStatus, order,
                 colored, cleanBuf, probes, inits, concVars>>

\* TextFormatter.Format(entry) when the range over entry.Data yields keys0: what
\* the call leaves in the formatter and the entry, and what it returns
FormatCall(fm, o, ev, e, keys0) ==
  LET data == prefixFieldClashes(e.Data, fm.FieldMap)
      keys == sortKeys(fm, keys0)
      b0 == IF e.HasBuffer THEN e.Buffer ELSE <<>>
      runs == doRuns(o)
      f1 == [fm EXCEPT !.isTerminal = IF runs THEN init(fm, e) ELSE fm.isTerminal]
      isColored == isColoredOf(f1)
      timestampFormat == IF fm.TimestampFormat = <<>>
                         THEN defaultTimestampFormat ELSE fm.TimestampFormat
      r == IF isColored
           THEN printColored(f1, e, data, keys, timestampFormat)
           ELSE formatPlain(f1, e, ev, data, keys, timestampFormat)
      b1 == b0 \o r.w \o (IF r.ok THEN <<NL>> ELSE <<>>)
  IN [f |-> f1,
      ranInit |-> runs,
      probed |-> runs /\ e.Logger # Nil,
      entry |-> [e EXCEPT !.Data = data, !.Buffer = IF e.HasBuffer THEN b1 ELSE <<>>],
      out |-> IF r.ok THEN b1 ELSE <<>>,
      status |-> r.why,
      keys |-> keys,
      isColored |-> isColored,
      emptyBuf |-> b0 = <<>>]

Format ==
  /\ calls < MaxCalls
  /\ \E keys0 \in Perms(DOMAIN prefixFieldClashes(entry.Data, f.FieldMap)) :
       \E c \in {FormatCall(f, once, env, entry, keys0)} :
         /\ f' = c.f
         /\ once' = [once EXCEPT !.done = TRUE]
         /\ inits' = IF c.ranInit THEN inits + 1 ELSE inits
         /\ probes' = IF c.probed THEN probes + 1 ELSE probes
         /\ entry' = c.entry
         /\ calls' = calls + 1
         /\ prevOut' = out
         /\ prevStatus' = status
         /\ out' = c.out
         /\ status' = c.status
         /\ order' = c.keys
         /\ colored' = c.isColored
         /\ cleanBuf' = (cleanBuf /\ c.emptyBuf)
  /\ UNCHANGED <<env, concVars>>

Next == NewEntry \/ ResetBuffer \/ Format

Spec == Init /\ [][Next]_vars

----------------------------------------------------------------------------
(* Concurrent use: NProcs goroutines call Format on the same formatter, each  *)
(* with an entry of its own.  Only the steps of Format that touch the shared  *)
(* formatter are steps here: f.Do (sync.Once: an atomic load of done, then    *)
(* under the mutex a second look at done, the function, the store of done)    *)
(* and the read of f.isTerminal.                                              *)

OnceConfigs ==
  {c \in Configs : /\ c.TimestampFormat = <<>> /\ c.FieldMap = <<>>
                   /\ ~c.DisableTimestamp /\ ~c.FullTimestamp /\ ~c.DisableSorting
                   /\ ~c.DisableLevelTruncation /\ ~c.QuoteEmptyFields}

InitOnce ==
  /\ f \in OnceConfigs
  /\ once = [done |-> FALSE, m |-> 0]
  /\ env = CHOOSE ev \in Envs : ev.goos = "darwin"
  /\ entry = Entry(DataA, "InfoLevel", Hello, Nil, FALSE, <<>>)
  /\ calls = 0
  /\ out = <<>>
  /\ status = "none"
  /\ prevOut = <<>>
  /\ prevStatus = "none"
  /\ order = <<>>
  /\ colored = FALSE
  /\ cleanBuf = TRUE
  /\ probes = 0
  /\ inits = 0
  /\ pc = [p \in Procs |-> "load"]
  /\ pentry \in [Procs -> {Nil, "tty", "file"}]
  /\ pcolored = [p \in Procs |-> FALSE]
  /\ earlyRead = FALSE

\* no second look at done under the mutex
doSlowRunsAlways(o) == TRUE

\* doSlow, with the mutex held: if o.done == 0 { ... f() }
doSlowRuns(o) == ~o.done

\* Do: the atomic load of o.done
DoLoad(p) ==
  /\ pc[p] = "load"
  /\ pc' = [pc EXCEPT ![p] = IF once.done THEN "read" ELSE "lock"]
  /\ UNCHANGED <<f, once, env, seqVars, probes, inits, pentry, pcolored, earlyRead>>

\* doSlow: o.m.Lock()
DoLock(p) ==
  /\ pc[p] = "lock"
  /\ once.m = 0
  /\ once' = [once EXCEPT !.m = p]
  /\ pc' = [pc EXCEPT ![p] = "check"]
  /\ UNCHANGED <<f, env, seqVars, probes, inits, pentry, pcolored, earlyRead>>

DoCheck(p) ==
  /\ pc[p] = "check"
  /\ pc' = [pc EXCEPT ![p] = IF doSlowRuns(once) THEN "init" ELSE "unlock"]
  /\ UNCHANGED <<f, once, env, seqVars, probes, inits, pentry, pcolored, earlyRead>>

\* f.init(entry)
DoInit(p) ==
  /\ pc[p] = "init"
  /\ f' = [f EXCEPT !.isTerminal = init(f, [Logger |-> pentry[p]])]
  /\ inits' = inits + 1
  /\ probes' = IF pentry[p] # Nil THEN probes + 1 ELSE probes
  /\ pc' = [pc EXCEPT ![p] = "store"]
  /\ UNCHANGED <<once, env, seqVars, pentry, pcolored, earlyRead>>

\* the deferred atomic.StoreUint32(&o.done, 1)
DoStore(p) ==
  /\ pc[p] = "store"
  /\ once' = [once EXCEPT !.done = TRUE]
  /\ pc' = [pc EXCEPT ![p] = "unlock"]
  /\ UNCHANGED <<f, env, seqVars, probes, inits, pentry, pcolored, earlyRead>>

\* the deferred o.m.Unlock()
DoUnlock(p) ==
  /\ pc[p] = "unlock"
  /\ once' = [once EXCEPT !.m = 0]
  /\ pc' = [pc EXCEPT ![p] = "read"]
  /\ UNCHANGED <<f, env, seqVars, probes, inits, pentry, pcolored, earlyRead>>

\* isColored := (f.ForceColors || f.isTerminal) && !f.DisableColors
ReadTerminal(p) ==
  /\ pc[p] = "read"
  /\ pcolored' = [pcolored EXCEPT ![p] = isColoredOf(f)]
  /\ earlyRead' = (earlyRead \/ ~once.done)
  /\ pc' = [pc EXCEPT ![p] = "done"]
  /\ UNCHANGED <<f, once, env, seqVars, probes, inits, pentry>>

NextOnce ==
  \E p \in Procs :
    \/ DoLoad(p)
    \/ DoLock(p)
    \/ DoCheck(p)
    \/ DoInit(p)
    \/ DoStore(p)
    \/ DoUnlock(p)
    \/ ReadTerminal(p)

SpecOnce == InitOnce /\ [][NextOnce]_vars

----------------------------------------------------------------------------
(* Properties *)

Contains(s, p) == IndexFrom(s, p, 1) > 0

\* the segments occur in s in this order, from position i on; consecutive
\* segments may share `overlap` bytes
RECURSIVE InOrder(_, _, _, _)
InOrder(s, segs, i, overlap) ==
  IF segs = <<>> THEN TRUE
  ELSE LET at == IndexFrom(s, Head(segs), i)
       IN at > 0 /\ InOrder(s, Tail(segs), at + Len(Head(segs)) - overlap, overlap)

Returned == calls > 0 /\ status = "ok"

\* the keys of the entry's field map in ascending byte order
Ascending(keys) == \A i, j \in DOMAIN keys : i < j => LexLess(keys[i], keys[j])
SortedKeys(data) == CHOOSE p \in Perms(DOMAIN data) : Ascending(p)

\* C1: every Format call returns a nil error and a non-empty byte sequence whose
\* last byte is a newline that is not preceded by another newline.
C1_ReturnsOneTrailingNewline ==
  calls > 0 =>
    /\ status = "ok"
    /\ out # <<>>
    /\ out[Len(out)] = NL
    /\ (Len(out) > 1 => out[Len(out) - 1] # NL)

\* C2 as stated: whatever the interleaving, once every concurrent call is over
\* checkIfTerminal has run exactly once, and no call read isTerminal before the
\* one-time initialisation had completed.
C2_ProbeExactlyOnce ==
  (\A p \in Procs : pc[p] = "done") => (probes = 1 /\ ~earlyRead)

\* C2 amended: init runs at most once and has run, to completion, before any
\* call reads isTerminal; checkIfTerminal runs only inside it, once when the
\* entry of the call that runs init carries a logger and not at all otherwise.
C2_InitExactlyOnce ==
  /\ inits <= 1
  /\ probes <= inits
  /\ ~earlyRead
  /\ \A p \in Procs : pc[p] \in {"read", "done"} => (once.done /\ inits = 1)
  /\ \A p \in Procs : pc[p] = "store" => probes = (IF pentry[p] # Nil THEN 1 ELSE 0)

\* a caller whose entry carries a terminal logger went down the slow path and,
\* holding the mutex, found the initialisation already done by a caller whose
\* entry had no logger: the probe never ran
C2_Witness ==
  \E p, q \in Procs :
    /\ pentry[p] = Nil /\ pc[p] \in {"read", "done"}
    /\ pentry[q] = "tty" /\ pc[q] = "unlock" /\ once.m = q
    /\ inits = 1 /\ probes = 0

\* C3: with DisableSorting false the user fields appear in the output in
\* ascending order of their keys, in plain and in colored mode, whatever order
\* the iteration over the field map yielded.
C3_FieldsAscending ==
  (Returned /\ ~f.DisableSorting) =>
    LET ks == SortedKeys(entry.Data)
    IN /\ order = ks
       /\ IF colored
          THEN InOrder(out, [i \in DOMAIN ks |->
                              <<" ">> \o Sgr(levelColorOf(entry.Level)) \o ks[i]
                              \o Sgr(0) \o <<"=">> \o appendValue(f, entry.Data[ks[i]])],
                       1, 0)
          ELSE InOrder(out, [i \in DOMAIN ks |->
                              <<" ">> \o appendField(f, entry.Data, ks[i]).w],
                       1, 1)

C3_Witness ==
  /\ Returned /\ ~f.DisableSorting /\ colored
  /\ Len(order) = 3 /\ Ascending(order)

SpecialKeys ==
  {FieldKeyTime, FieldKeyLevel, KeyProcessID, KeyThreadID, KeyOS, FieldKeyMsg, KeySourceFile}

QuotedForm(fm, v) ==
  IF needsQuoting(fm, Sprint(v)) THEN Quote(Sprint(v)) ELSE Sprint(v)

\* C4: every user field that is not a specially formatted reserved key is
\* emitted quoted exactly when needsQuoting holds of its text and raw otherwise,
\* in plain and in colored mode, for strings, errors and other values.
C4_QuotedIffNeedsQuoting ==
  Returned =>
    \A k \in DOMAIN entry.Data \ SpecialKeys :
      IF colored
      THEN \E e \in {" ", NL} :
             Contains(out, k \o Sgr(0) \o <<"=">> \o QuotedForm(f, entry.Data[k]) \o <<e>>)
      ELSE Contains(out, <<" ">> \o QuotedForm(f, entry.Data[k]) \o <<" ">>)

\* the scenario of C5: level Info, message "hello", fields {a: "1"}, plain
\* mode, sorting enabled, timestamps disabled
C5_Scenario ==
  /\ Returned /\ ~colored /\ ~entry.HasBuffer
  /\ entry.Level = "InfoLevel" /\ entry.Message = Hello /\ entry.Data = DataA
  /\ ~f.DisableSorting /\ f.DisableTimestamp

C6_SameOutputTwice ==
  (calls >= 2 /\ status = "ok" /\ prevStatus = "ok" /\ ~entry.HasBuffer) => out = prevOut

\* no mapped name of the FieldMap is "fields." followed by another mapped name
StableFieldMap(fieldMap) ==
  \A k1, k2 \in {FieldKeyTime, FieldKeyMsg, FieldKeyLevel} :
    resolve(fieldMap, k1) # FieldsPrefix \o resolve(fieldMap, k2)

\* C6 amended: when sorting is enabled or the entry has fewer than two fields,
\* the entry carries no buffer or one that is empty at the start of each call,
\* and no mapped name of the FieldMap is "fields." followed by another mapped
\* name, two successive Format calls with the same entry end the same way: with
\* the same panic, or returning byte-identical output.
C6_SameOutcomeTwice ==
  (/\ calls >= 2
   /\ cleanBuf
   /\ (~f.DisableSorting \/ Cardinality(DOMAIN entry.Data) < 2)
   /\ StableFieldMap(f.FieldMap))
  => (status = prevStatus /\ out = prevOut)

C6_Witness ==
  /\ calls = 2 /\ status = "ok" /\ prevStatus = "ok" /\ cleanBuf
  /\ ~f.DisableSorting /\ Cardinality(DOMAIN entry.Data) = 3
  /\ StableFieldMap(f.FieldMap) /\ out = prevOut /\ out # <<>>

\* C7: Format never panics: for every field value type under every key, every
\* timestamp format and every level the call completes.
C7_NeverPanics == calls > 0 => status = "ok"

\* C8: whatever the message and the field values contain, the returned bytes
\* are exactly one line: one newline byte, and it is the last byte.
C8_ExactlyOneNewline ==
  (Returned /\ ~entry.HasBuffer) => (Count(out, NL) = 1 /\ out[Len(out)] = NL)

\* C9: a Format call leaves the entry's field map, level, message and
\* timestamp as they were.
C9_EntryUnchanged ==
  [][calls' = calls + 1 =>
       /\ entry'.Data = entry.Data
       /\ entry'.Level = entry.Level
       /\ entry'.Message = entry.Message
       /\ entry'.Time = entry.Time]_vars

\* C10: once the first Format call on a formatter has completed, isTerminal, and
\* with it the colour mode, never changes, whatever logger later entries carry.
C10_TerminalFixed ==
  [][once.done => (f'.isTerminal = f.isTerminal /\ isColoredOf(f') = isColoredOf(f))]_vars

\* a later entry whose logger writes to a terminal was formatted, and isTerminal
\* is still the false that an earlier call fixed
C10_Witness ==
  /\ once.done /\ ~f.isTerminal /\ inits = 1
  /\ entry.Logger = "tty" /\ Returned

====
